---- MODULE Spec2Model ----
(***************************************************************************)
(* Model of ContElements/Barks.py: the Barks class computes the byte and   *)
(* header statistics of one flow and keeps session-wide cumulative totals  *)
(* in class attributes shared by all instances.                            *)
(*                                                                         *)
(* A packet is a record [src, len, proto, ip]: src is packet.src, len is   *)
(* len(packet), proto is packet.proto and ip is the sequence of the        *)
(* packet's IP layers (empty when the packet has no IP layer, so that      *)
(* packet['IP'] fails).  A feature is [packets, interface, duration] where *)
(* packets is the ordered sequence of <<packet, direction>> pairs.         *)
(*                                                                         *)
(* A returned value is a record [kind, num, den]: an int n is              *)
(* [kind |-> "int", num |-> n, den |-> 1], the float a / b is the reduced  *)
(* fraction with kind "float", and a raised exception has the exception's  *)
(* name as kind.                                                           *)
(***************************************************************************)
EXTENDS Integers, Sequences, FiniteSets, TLC

VARIABLES
    row,                          \* Barks.row
    total_bytes_sent,             \* Barks.total_bytes_sent
    total_bytes_received,         \* Barks.total_bytes_received
    total_forward_header_bytes,   \* Barks.total_forward_header_bytes
    total_reverse_header_bytes,   \* Barks.total_reverse_header_bytes
    instances,                    \* the Barks objects constructed so far (their self.feature)
    last,                         \* the most recent call: [op, self, ret]
    early,                        \* per total-* getter: calls made while row = 1
    calls                         \* per instance and total-* getter: calls made while row # 1

vars == <<row, total_bytes_sent, total_bytes_received, total_forward_header_bytes,
          total_reverse_header_bytes, instances, last, early, calls>>

counters == <<total_bytes_sent, total_bytes_received, total_forward_header_bytes,
              total_reverse_header_bytes>>

(***************************************************************************)
(* Bounds.                                                                 *)
(***************************************************************************)
MaxPkts == 2

MaxFlows == 2

MaxCalls == 2

(***************************************************************************)
(* Program constants: the sizes of scapy's default headers and the         *)
(* protocol number the code compares with.                                 *)
(***************************************************************************)
LenEther == 14

LenIP == 20

LenTCP == 20

ProtoTCP == 6

(***************************************************************************)
(* Inputs.                                                                 *)
(***************************************************************************)
FORWARD == "FORWARD"

REVERSE == "REVERSE"

PacketDirection == {FORWARD, REVERSE}

Interfaces == {"eth0", "wlan0"}

Durations == {0, 2, 3}

TcpOut == [src |-> "aa", len |-> 100, proto |-> 6, ip |-> <<[ttl |-> 64]>>]

TcpAck == [src |-> "aa", len |-> 60, proto |-> 6, ip |-> <<[ttl |-> 64]>>]

TcpIn == [src |-> "bb", len |-> 60, proto |-> 6, ip |-> <<[ttl |-> 128]>>]

UdpIn == [src |-> "bb", len |-> 80, proto |-> 17, ip |-> <<[ttl |-> 32]>>]

NonIp == [src |-> "aa", len |-> 62, proto |-> 87, ip |-> << >>]

PacketPool == {TcpOut, TcpIn, UdpIn, NonIp}

SeqUpTo(S, n) == UNION {[1..k -> S] : k \in 0..n}

Features ==
    [packets : SeqUpTo(PacketPool \X PacketDirection, MaxPkts),
     interface : Interfaces,
     duration : Durations]

\* three TCP packets, two sent forward by the local host, one received in reverse
ScenarioFlow ==
    [packets |-> <<(<<TcpOut, FORWARD>>), (<<TcpAck, FORWARD>>), (<<TcpIn, REVERSE>>)>>,
     interface |-> "eth0", duration |-> 2]

UdpFlow ==
    [packets |-> <<(<<UdpIn, FORWARD>>)>>, interface |-> "wlan0", duration |-> 0]

SessionFeatures == {ScenarioFlow, UdpFlow}

(***************************************************************************)
(* Values returned to the caller.                                          *)
(***************************************************************************)
RECURSIVE GCD(_, _)
GCD(a, b) == IF b = 0 THEN a ELSE GCD(b, a % b)

IntVal(n) == [kind |-> "int", num |-> n, den |-> 1]

\* a / b for ints a >= 0 and b > 0: a float, kept as a reduced fraction
TrueDiv(a, b) ==
    [kind |-> "float", num |-> a \div GCD(a, b), den |-> b \div GCD(a, b)]

Raise(exc) == [kind |-> exc, num |-> 0, den |-> 0]

(***************************************************************************)
(* Collaborators.                                                          *)
(***************************************************************************)
get_if_hwaddr(interface) == IF interface = "eth0" THEN "aa" ELSE "bb"

get_duration(feature) == feature.duration

(***************************************************************************)
(* Per-flow statistics.                                                    *)
(***************************************************************************)
RECURSIVE SumSent(_, _)
SumSent(packets, interface) ==
    IF packets = << >> THEN 0
    ELSE (IF Head(packets)[1].src = interface THEN Head(packets)[1].len ELSE 0)
         + SumSent(Tail(packets), interface)

get_bytes_sent(feature) ==
    SumSent(feature.packets, get_if_hwaddr(feature.interface))

RECURSIVE SumReceived(_, _)
SumReceived(packets, interface) ==
    IF packets = << >> THEN 0
    ELSE (IF Head(packets)[1].src # interface THEN Head(packets)[1].len ELSE 0)
         + SumReceived(Tail(packets), interface)

\* slip: the filter copied from get_bytes_sent (== instead of !=)
get_bytes_received_same_filter(feature) ==
    SumSent(feature.packets, get_if_hwaddr(feature.interface))

get_bytes_received(feature) ==
    SumReceived(feature.packets, get_if_hwaddr(feature.interface))

header_size(packet) ==
    (LenEther + LenIP) + (IF packet.proto = ProtoTCP THEN LenTCP ELSE 0)

RECURSIVE SumForward(_)
SumForward(packets) ==
    IF packets = << >> THEN 0
    ELSE (IF Head(packets)[2] = FORWARD THEN header_size(Head(packets)[1]) ELSE 0)
         + SumForward(Tail(packets))

get_forward_header_bytes(feature) == SumForward(feature.packets)

\* slip: the TCP header added whatever the protocol number
header_size_reverse_always_tcp(packet) == (LenEther + LenIP) + LenTCP

header_size_reverse(packet) ==
    (LenEther + LenIP) + (IF packet.proto = ProtoTCP THEN LenTCP ELSE 0)

RECURSIVE SumReverse(_)
SumReverse(packets) ==
    IF packets = << >> THEN 0
    ELSE (IF Head(packets)[2] = REVERSE THEN header_size_reverse(Head(packets)[1]) ELSE 0)
         + SumReverse(Tail(packets))

get_reverse_header_bytes(feature) == SumReverse(feature.packets)

(***************************************************************************)
(* Rates and ratios.                                                       *)
(***************************************************************************)
get_sent_rate(feature) ==
    IF get_duration(feature) = 0 THEN IntVal(-1)
    ELSE TrueDiv(get_bytes_sent(feature), get_duration(feature))

get_received_rate(feature) ==
    IF get_duration(feature) = 0 THEN IntVal(-1)
    ELSE TrueDiv(get_bytes_received(feature), get_duration(feature))

\* slip: floor division (//) instead of true division
get_forward_rate_floordiv(feature) ==
    IF get_duration(feature) > 0
    THEN [kind |-> "float",
          num |-> get_forward_header_bytes(feature) \div get_duration(feature),
          den |-> 1]
    ELSE IntVal(-1)

get_forward_rate(feature) ==
    IF get_duration(feature) > 0
    THEN TrueDiv(get_forward_header_bytes(feature), get_duration(feature))
    ELSE IntVal(-1)

get_reverse_rate(feature) ==
    IF get_duration(feature) = 0 THEN IntVal(-1)
    ELSE TrueDiv(get_reverse_header_bytes(feature), get_duration(feature))

get_header_in_out_ratio(feature) ==
    IF get_reverse_header_bytes(feature) # 0
    THEN TrueDiv(get_forward_header_bytes(feature), get_reverse_header_bytes(feature))
    ELSE IntVal(-1)

\* slip: the quotient inverted (reverse over forward)
get_total_header_in_out_ratio_inverted ==
    IF total_reverse_header_bytes # 0
    THEN TrueDiv(total_reverse_header_bytes, total_forward_header_bytes)
    ELSE IntVal(-1)

get_total_header_in_out_ratio ==
    IF total_reverse_header_bytes # 0
    THEN TrueDiv(total_forward_header_bytes, total_reverse_header_bytes)
    ELSE IntVal(-1)

(***************************************************************************)
(* get_initial_ttl builds the list of packet['IP'].ttl over ALL packets    *)
(* and then takes element 0: packet['IP'] raises IndexError on a packet    *)
(* without an IP layer, and [][0] raises IndexError on the empty list.     *)
(***************************************************************************)
AllHaveIP(packets) == \A k \in 1..Len(packets) : packets[k][1].ip # << >>

get_initial_ttl(feature) ==
    IF ~AllHaveIP(feature.packets) THEN Raise("IndexError")
    ELSE IF feature.packets = << >> THEN Raise("IndexError")
    ELSE IntVal(feature.packets[1][1].ip[1].ttl)

(***************************************************************************)
(* The session.                                                            *)
(***************************************************************************)
NoneVal == [kind |-> "None", num |-> 0, den |-> 0]

TotalOps ==
    {"get_total_bytes_sent", "get_total_bytes_received",
     "get_total_forward_bytes", "get_total_reverse_bytes"}

NoCalls == [op \in TotalOps |-> 0]

Sum4(count) ==
    count["get_total_bytes_sent"] + count["get_total_bytes_received"]
    + count["get_total_forward_bytes"] + count["get_total_reverse_bytes"]

RECURSIVE SumCalls(_)
SumCalls(cs) == IF cs = << >> THEN 0 ELSE Sum4(Head(cs)) + SumCalls(Tail(cs))

\* number of total-* getter calls made so far
ncalls == Sum4(early) + SumCalls(calls)

\* what a call of a total-* getter records besides the counter it updates
Record(op, i, total) ==
    /\ last' = [op |-> op, self |-> i, ret |-> IntVal(total)]
    /\ early' = IF row = 1 THEN [early EXCEPT ![op] = @ + 1] ELSE early
    /\ calls' = IF row = 1 THEN calls ELSE [calls EXCEPT ![i][op] = @ + 1]

\* a getter that only reads: the caller gets ret, nothing else changes
Return(op, i, ret) ==
    /\ last' = [op |-> op, self |-> i, ret |-> ret]
    /\ UNCHANGED <<row, counters, instances, early, calls>>

Init ==
    /\ row = 0
    /\ total_bytes_sent = 0
    /\ total_bytes_received = 0
    /\ total_forward_header_bytes = 0
    /\ total_reverse_header_bytes = 0
    /\ instances = << >>
    /\ last = [op |-> "none", self |-> 0, ret |-> NoneVal]
    /\ early = NoCalls
    /\ calls = << >>

\* Barks(feature)
Construct(feature) ==
    /\ Len(instances) < MaxFlows
    /\ instances' = Append(instances, feature)
    /\ row' = row + 1
    /\ last' = [op |-> "__init__", self |-> Len(instances) + 1, ret |-> NoneVal]
    /\ calls' = Append(calls, NoCalls)
    /\ UNCHANGED <<counters, early>>

\* slip: the first flow seeds the counter with its own value
get_total_bytes_sent_seeded(i) ==
    /\ ncalls < MaxCalls
    /\ total_bytes_sent' =
          IF row = 1
          THEN get_bytes_sent(instances[i])
          ELSE total_bytes_sent + get_bytes_sent(instances[i])
    /\ Record("get_total_bytes_sent", i, total_bytes_sent')
    /\ UNCHANGED <<row, instances, total_bytes_received,
                   total_forward_header_bytes, total_reverse_header_bytes>>

get_total_bytes_sent(i) ==
    /\ ncalls < MaxCalls
    /\ total_bytes_sent' =
          IF row = 1
          THEN get_bytes_sent(instances[i]) - get_bytes_sent(instances[i])
          ELSE total_bytes_sent + get_bytes_sent(instances[i])
    /\ Record("get_total_bytes_sent", i, total_bytes_sent')
    /\ UNCHANGED <<row, instances, total_bytes_received,
                   total_forward_header_bytes, total_reverse_header_bytes>>

\* slip: the test inverted (row != 1 stores 0, row == 1 accumulates)
get_total_bytes_received_inverted(i) ==
    /\ ncalls < MaxCalls
    /\ total_bytes_received' =
          IF row # 1
          THEN get_bytes_received(instances[i]) - get_bytes_received(instances[i])
          ELSE total_bytes_received + get_bytes_received(instances[i])
    /\ Record("get_total_bytes_received", i, total_bytes_received')
    /\ UNCHANGED <<row, instances, total_bytes_sent,
                   total_forward_header_bytes, total_reverse_header_bytes>>

get_total_bytes_received(i) ==
    /\ ncalls < MaxCalls
    /\ total_bytes_received' =
          IF row = 1
          THEN get_bytes_received(instances[i]) - get_bytes_received(instances[i])
          ELSE total_bytes_received + get_bytes_received(instances[i])
    /\ Record("get_total_bytes_received", i, total_bytes_received')
    /\ UNCHANGED <<row, instances, total_bytes_sent,
                   total_forward_header_bytes, total_reverse_header_bytes>>

\* slip: the first flow seeds the counter with its own value
get_total_forward_bytes_seeded(i) ==
    /\ ncalls < MaxCalls
    /\ total_forward_header_bytes' =
          IF row = 1
          THEN get_forward_header_bytes(instances[i])
          ELSE total_forward_header_bytes + get_forward_header_bytes(instances[i])
    /\ Record("get_total_forward_bytes", i, total_forward_header_bytes')
    /\ UNCHANGED <<row, instances, total_bytes_sent, total_bytes_received,
                   total_reverse_header_bytes>>

get_total_forward_bytes(i) ==
    /\ ncalls < MaxCalls
    /\ total_forward_header_bytes' =
          IF row = 1
          THEN get_forward_header_bytes(instances[i]) - get_forward_header_bytes(instances[i])
          ELSE total_forward_header_bytes + get_forward_header_bytes(instances[i])
    /\ Record("get_total_forward_bytes", i, total_forward_header_bytes')
    /\ UNCHANGED <<row, instances, total_bytes_sent, total_bytes_received,
                   total_reverse_header_bytes>>

\* slip: the counter assigned (=) instead of accumulated (+=)
get_total_reverse_bytes_assigned(i) ==
    /\ ncalls < MaxCalls
    /\ total_reverse_header_bytes' =
          IF row = 1
          THEN get_reverse_header_bytes(instances[i]) - get_reverse_header_bytes(instances[i])
          ELSE get_reverse_header_bytes(instances[i])
    /\ Record("get_total_reverse_bytes", i, total_reverse_header_bytes')
    /\ UNCHANGED <<row, instances, total_bytes_sent, total_bytes_received,
                   total_forward_header_bytes>>

\* slip: the first flow seeds the counter with its own value
get_total_reverse_bytes_seeded(i) ==
    /\ ncalls < MaxCalls
    /\ total_reverse_header_bytes' =
          IF row = 1
          THEN get_reverse_header_bytes(instances[i])
          ELSE total_reverse_header_bytes + get_reverse_header_bytes(instances[i])
    /\ Record("get_total_reverse_bytes", i, total_reverse_header_bytes')
    /\ UNCHANGED <<row, instances, total_bytes_sent, total_bytes_received,
                   total_forward_header_bytes>>

get_total_reverse_bytes(i) ==
    /\ ncalls < MaxCalls
    /\ total_reverse_header_bytes' =
          IF row = 1
          THEN get_reverse_header_bytes(instances[i]) - get_reverse_header_bytes(instances[i])
          ELSE total_reverse_header_bytes + get_reverse_header_bytes(instances[i])
    /\ Record("get_total_reverse_bytes", i, total_reverse_header_bytes')
    /\ UNCHANGED <<row, instances, total_bytes_sent, total_bytes_received,
                   total_forward_header_bytes>>

Call_get_bytes_sent(i) ==
    Return("get_bytes_sent", i, IntVal(get_bytes_sent(instances[i])))

Call_get_sent_rate(i) ==
    Return("get_sent_rate", i, get_sent_rate(instances[i]))

Call_get_bytes_received(i) ==
    Return("get_bytes_received", i, IntVal(get_bytes_received(instances[i])))

Call_get_received_rate(i) ==
    Return("get_received_rate", i, get_received_rate(instances[i]))

Call_get_forward_header_bytes(i) ==
    Return("get_forward_header_bytes", i, IntVal(get_forward_header_bytes(instances[i])))

Call_get_forward_rate(i) ==
    Return("get_forward_rate", i, get_forward_rate(instances[i]))

Call_get_reverse_header_bytes(i) ==
    Return("get_reverse_header_bytes", i, IntVal(get_reverse_header_bytes(instances[i])))

Call_get_reverse_rate(i) ==
    Return("get_reverse_rate", i, get_reverse_rate(instances[i]))

Call_get_header_in_out_ratio(i) ==
    Return("get_header_in_out_ratio", i, get_header_in_out_ratio(instances[i]))

Call_get_total_header_in_out_ratio(i) ==
    Return("get_total_header_in_out_ratio", i, get_total_header_in_out_ratio)

Call_get_initial_ttl(i) ==
    Return("get_initial_ttl", i, get_initial_ttl(instances[i]))

Next ==
    \/ \E feature \in SessionFeatures : Construct(feature)
    \/ \E i \in 1..Len(instances) : get_total_bytes_sent(i)
    \/ \E i \in 1..Len(instances) : get_total_bytes_received(i)
    \/ \E i \in 1..Len(instances) : get_total_forward_bytes(i)
    \/ \E i \in 1..Len(instances) : get_total_reverse_bytes(i)
    \/ \E i \in 1..Len(instances) : Call_get_bytes_sent(i)
    \/ \E i \in 1..Len(instances) : Call_get_sent_rate(i)
    \/ \E i \in 1..Len(instances) : Call_get_bytes_received(i)
    \/ \E i \in 1..Len(instances) : Call_get_received_rate(i)
    \/ \E i \in 1..Len(instances) : Call_get_forward_header_bytes(i)
    \/ \E i \in 1..Len(instances) : Call_get_forward_rate(i)
    \/ \E i \in 1..Len(instances) : Call_get_reverse_header_bytes(i)
    \/ \E i \in 1..Len(instances) : Call_get_reverse_rate(i)
    \/ \E i \in 1..Len(instances) : Call_get_header_in_out_ratio(i)
    \/ \E i \in 1..Len(instances) : Call_get_total_header_in_out_ratio(i)
    \/ \E i \in 1..Len(instances) : Call_get_initial_ttl(i)

Spec == Init /\ [][Next]_vars

(***************************************************************************)
(* One flow: the first Barks object of a session wraps any feature of      *)
(* Features and its reading getters are called in any order.               *)
(***************************************************************************)
InitFlow ==
    /\ row = 1
    /\ total_bytes_sent = 0
    /\ total_bytes_received = 0
    /\ total_forward_header_bytes = 0
    /\ total_reverse_header_bytes = 0
    /\ instances \in {<<feature>> : feature \in Features}
    /\ last = [op |-> "__init__", self |-> 1, ret |-> NoneVal]
    /\ early = NoCalls
    /\ calls = <<NoCalls>>

NextFlow ==
    \/ Call_get_bytes_sent(1)
    \/ Call_get_sent_rate(1)
    \/ Call_get_bytes_received(1)
    \/ Call_get_received_rate(1)
    \/ Call_get_forward_header_bytes(1)
    \/ Call_get_forward_rate(1)
    \/ Call_get_reverse_header_bytes(1)
    \/ Call_get_reverse_rate(1)
    \/ Call_get_header_in_out_ratio(1)
    \/ Call_get_initial_ttl(1)

SpecFlow == InitFlow /\ [][NextFlow]_vars

(***************************************************************************)
(* Properties.                                                             *)
(***************************************************************************)
\* the per-flow statistic a total-* getter accumulates
PerFlow(op, feature) ==
    CASE op = "get_total_bytes_sent" -> get_bytes_sent(feature)
      [] op = "get_total_bytes_received" -> get_bytes_received(feature)
      [] op = "get_total_forward_bytes" -> get_forward_header_bytes(feature)
      [] op = "get_total_reverse_bytes" -> get_reverse_header_bytes(feature)

\* the session counter a total-* getter updates
Total(op) ==
    CASE op = "get_total_bytes_sent" -> total_bytes_sent
      [] op = "get_total_bytes_received" -> total_bytes_received
      [] op = "get_total_forward_bytes" -> total_forward_header_bytes
      [] op = "get_total_reverse_bytes" -> total_reverse_header_bytes

\* sum, over the instances from index k on, of (accumulating calls) x (per-flow value)
RECURSIVE LateSum(_, _)
LateSum(op, k) ==
    IF k > Len(instances) THEN 0
    ELSE calls[k][op] * PerFlow(op, instances[k]) + LateSum(op, k + 1)

\* the same sum with every call counted, those made while row = 1 included
AllSum(op) ==
    IF instances = << >> THEN 0
    ELSE early[op] * PerFlow(op, instances[1]) + LateSum(op, 1)

\* the last call was the first call of a total-* getter on the second of two flows
FirstCallOnSecond ==
    /\ row = 2
    /\ last.op \in TotalOps
    /\ last.self = 2
    /\ calls[2][last.op] = 1

\* ret is the quotient num / den, whatever fraction represents it
IsQuotient(ret, num, den) ==
    /\ ret.kind = "float"
    /\ ret.den > 0
    /\ ret.num * den = num * ret.den

RECURSIVE TotalLength(_)
TotalLength(packets) ==
    IF packets = << >> THEN 0 ELSE Head(packets)[1].len + TotalLength(Tail(packets))

\* 54 bytes for each TCP packet tagged dir, 34 for each other packet tagged dir
RECURSIVE ExpectedHeaders(_, _)
ExpectedHeaders(packets, dirs) ==
    IF packets = << >> THEN 0
    ELSE (IF Head(packets)[2] \in dirs
          THEN (IF Head(packets)[1].proto = 6 THEN 54 ELSE 34)
          ELSE 0)
         + ExpectedHeaders(Tail(packets), dirs)

\* C1 as stated: whatever the order of constructions and calls, every total is a
\* sum of per-flow values of the second and later flows only (one per call made
\* on them); the first flow never contributes.
C1_FirstFlowNeverContributes ==
    \A op \in TotalOps : Total(op) = LateSum(op, 2)

\* C1 amended: as long as a total-* getter has been called on the first flow only
\* while row = 1 (before a second flow was constructed), its total is a sum of
\* per-flow values of the second and later flows only.
C1_FirstFlowContributesOnlyLate ==
    \A op \in TotalOps :
        (row >= 1 /\ calls[1][op] = 0) => Total(op) = LateSum(op, 2)

\* the getter was called on a first flow of positive value while row = 1, then on
\* the second flow, and the total holds the second flow's value only
C1_Witness ==
    /\ row = 2
    /\ early["get_total_bytes_sent"] = 1
    /\ calls[1]["get_total_bytes_sent"] = 0
    /\ calls[2]["get_total_bytes_sent"] = 1
    /\ get_bytes_sent(instances[1]) > 0
    /\ get_bytes_sent(instances[2]) > 0
    /\ total_bytes_sent = get_bytes_sent(instances[2])

\* C2: while row = 1, a total-* getter called on the first flow returns 0 and
\* leaves its session counter at 0, whatever the flow's own value and however
\* often it is called.
C2_FirstFlowTotalsZero ==
    (row = 1 /\ last.op \in TotalOps) =>
        /\ last.ret = IntVal(0)
        /\ Total(last.op) = 0

\* the getter was called twice on a first flow that received bytes
C2_Witness ==
    /\ row = 1
    /\ last.op = "get_total_bytes_received"
    /\ early["get_total_bytes_received"] = 2
    /\ get_bytes_received(instances[1]) > 0

\* C3 as stated: the first call of a total-* getter on the second flow returns the
\* second flow's own value, whenever the getter was called on the first flow.
C3_SecondFlowFirstCall ==
    FirstCallOnSecond =>
        last.ret = IntVal(PerFlow(last.op, instances[2]))

\* C3 amended: the first call of a total-* getter on the second flow returns the
\* second flow's own value plus the first flow's value once for every call of the
\* getter made on the first flow after the second flow was constructed; calls on
\* the first flow made while row = 1 add nothing.
C3_SecondFlowFirstCallAmended ==
    FirstCallOnSecond =>
        last.ret = IntVal(calls[1][last.op] * PerFlow(last.op, instances[1])
                          + PerFlow(last.op, instances[2]))

\* the getter was called on the first flow while row = 1, and its first call on
\* the second flow returned the second flow's own value
C3_Witness ==
    /\ FirstCallOnSecond
    /\ last.op = "get_total_forward_bytes"
    /\ early["get_total_forward_bytes"] = 1
    /\ calls[1]["get_total_forward_bytes"] = 0
    /\ get_forward_header_bytes(instances[1]) > 0
    /\ get_forward_header_bytes(instances[1]) # get_forward_header_bytes(instances[2])
    /\ last.ret = IntVal(get_forward_header_bytes(instances[2]))

\* C4 as stated: for any flow, k calls of a total-* getter on it add k times the
\* flow's value to the session counter.
C4_EveryCallAdds ==
    \A op \in TotalOps : Total(op) = AllSum(op)

\* C4 amended: k calls of a total-* getter made on a flow while row # 1 add k
\* times the flow's value to the session counter; calls made while row = 1 add
\* nothing.
C4_LateCallsAdd ==
    \A op \in TotalOps : Total(op) = LateSum(op, 1)

\* the getter was called twice on the same flow and counted its value twice
C4_Witness ==
    \E i \in 1..Len(instances) :
        /\ calls[i]["get_total_reverse_bytes"] = 2
        /\ get_reverse_header_bytes(instances[i]) > 0
        /\ total_reverse_header_bytes = 2 * get_reverse_header_bytes(instances[i])

\* C5: each rate getter returns -1 when the duration is 0 and otherwise its byte
\* count divided by the duration; none raises.
C5_Rates ==
    LET feature == instances[last.self]
        count == CASE last.op = "get_sent_rate" -> get_bytes_sent(feature)
                   [] last.op = "get_received_rate" -> get_bytes_received(feature)
                   [] last.op = "get_forward_rate" -> get_forward_header_bytes(feature)
                   [] last.op = "get_reverse_rate" -> get_reverse_header_bytes(feature)
    IN  last.op \in {"get_sent_rate", "get_received_rate",
                     "get_forward_rate", "get_reverse_rate"} =>
            IF feature.duration = 0
            THEN last.ret = IntVal(-1)
            ELSE IsQuotient(last.ret, count, feature.duration)

\* the forward rate of a flow of 3 seconds whose header bytes 3 does not divide
C5_Witness ==
    /\ last.op = "get_forward_rate"
    /\ instances[1].duration = 3
    /\ get_forward_header_bytes(instances[1]) % 3 # 0
    /\ last.ret.den = 3

\* what the two ratio getters return, given the state they return in
C6_Returned ==
    /\ last.op = "get_header_in_out_ratio" =>
          IF get_reverse_header_bytes(instances[last.self]) = 0
          THEN last.ret = IntVal(-1)
          ELSE IsQuotient(last.ret, get_forward_header_bytes(instances[last.self]),
                          get_reverse_header_bytes(instances[last.self]))
    /\ last.op = "get_total_header_in_out_ratio" =>
          IF total_reverse_header_bytes = 0
          THEN last.ret = IntVal(-1)
          ELSE IsQuotient(last.ret, total_forward_header_bytes,
                          total_reverse_header_bytes)

\* C6: get_header_in_out_ratio returns -1 when the flow's reverse header bytes are
\* 0 and forward / reverse otherwise; get_total_header_in_out_ratio does the same
\* with the session counters and changes none of them.
C6_Ratios ==
    [][/\ C6_Returned'
       /\ last'.op = "get_total_header_in_out_ratio" =>
              (counters' = counters /\ row' = row)]_vars

\* the session ratio was read with both cumulative header totals positive and
\* different
C6_Witness ==
    /\ last.op = "get_total_header_in_out_ratio"
    /\ total_reverse_header_bytes > 0
    /\ total_forward_header_bytes > total_reverse_header_bytes
    /\ last.ret.kind = "float"

\* C7: get_initial_ttl returns the TTL of the first packet whenever the flow is
\* not empty and its first packet has an IP layer, whatever the later packets are.
C7_InitialTtl ==
    LET packets == instances[last.self].packets
    IN  (/\ last.op = "get_initial_ttl"
         /\ packets # << >>
         /\ packets[1][1].ip # << >>) =>
            last.ret = IntVal(packets[1][1].ip[1].ttl)

\* C8: bytes sent plus bytes received is the sum of the lengths of all packets of
\* the flow, for either local address.
C8_SentPlusReceived ==
    LET feature == instances[last.self]
    IN  /\ last.op = "get_bytes_sent" =>
              last.ret.num + get_bytes_received(feature) = TotalLength(feature.packets)
        /\ last.op = "get_bytes_received" =>
              get_bytes_sent(feature) + last.ret.num = TotalLength(feature.packets)

\* bytes received read on a flow of two packets, one sent and one received
C8_Witness ==
    /\ last.op = "get_bytes_received"
    /\ Len(instances[1].packets) = 2
    /\ last.ret.num > 0
    /\ get_bytes_sent(instances[1]) > 0

\* C9: forward header bytes are 54 per FORWARD TCP packet and 34 per other FORWARD
\* packet, reverse header bytes the same over the REVERSE packets, and the two add
\* up to the header sizes of all packets.
C9_HeaderBytes ==
    LET feature == instances[last.self]
    IN  /\ last.op = "get_forward_header_bytes" =>
              /\ last.ret = IntVal(ExpectedHeaders(feature.packets, {FORWARD}))
              /\ last.ret.num + get_reverse_header_bytes(feature)
                     = ExpectedHeaders(feature.packets, PacketDirection)
        /\ last.op = "get_reverse_header_bytes" =>
              /\ last.ret = IntVal(ExpectedHeaders(feature.packets, {REVERSE}))
              /\ get_forward_header_bytes(feature) + last.ret.num
                     = ExpectedHeaders(feature.packets, PacketDirection)

\* reverse header bytes read on a flow with a FORWARD TCP packet and a REVERSE
\* packet that is not TCP
C9_Witness ==
    /\ last.op = "get_reverse_header_bytes"
    /\ last.ret = IntVal(34)
    /\ get_forward_header_bytes(instances[1]) = 54

\* C10: no step makes a session counter smaller; row grows by exactly 1 in a
\* construction and is changed by no getter.
C10_Monotone ==
    [][/\ total_bytes_sent' >= total_bytes_sent
       /\ total_bytes_received' >= total_bytes_received
       /\ total_forward_header_bytes' >= total_forward_header_bytes
       /\ total_reverse_header_bytes' >= total_reverse_header_bytes
       /\ row' = Len(instances')
       /\ IF last'.op = "__init__"
          THEN row' = row + 1 /\ Len(instances') = Len(instances) + 1
          ELSE row' = row /\ instances' = instances]_vars

\* a counter stored 0 in the row = 1 branch and grew afterwards
C10_Witness ==
    /\ row = 2
    /\ early["get_total_bytes_received"] = 1
    /\ total_bytes_received > 0

====
